---- MODULE Spec2Model ----
(***************************************************************************)
(* A model of the dashboard client's stateful parts:                       *)
(*   - the axios instance (services/api.ts): the stored bearer token and   *)
(*     the 401 handling of its interceptors;                               *)
(*   - WebSocketService (services/api.ts): the push connection, its        *)
(*     reconnect timer and the topic -> callbacks registry;                *)
(*   - Dashboard.loadDashboardData (pages/Dashboard.tsx): the polling      *)
(*     aggregation cycle and the React state it publishes.                 *)
(* JavaScript runs handlers to completion on one thread, so every action   *)
(* below is one synchronous segment of code between two suspension points. *)
(***************************************************************************)
EXTENDS Integers, Sequences, FiniteSets, TLC

\* ------------------------------------------------------------------ bounds
MaxSockets == 2
MaxTimers == 1
MaxListeners == 3
MaxCallbackOps == 1
MaxCycles == 2
MaxRequests == 2

VARIABLES
    ws,                 \* WebSocketService.ws: 0 (null), an index of sockets, or -1 (a
                        \* WebSocket that has closed)
    listeners,          \* WebSocketService.listeners: topic -> array of callbacks
    sockets,            \* the WebSockets constructed by connect() that have not closed yet,
                        \* oldest first, each with the four handlers attached
    timers,             \* pending setTimeout(() => this.connect(), 5000) callbacks
    dispatch,           \* the forEach loop of onmessage, while it runs
    pass,               \* what the handler running or just finished did (the frame, the callbacks
                        \* called, what was logged); forgotten at the next event
    callerDisconnected  \* disconnect() returned and the caller has not called connect() since

VARIABLES
    stats,              \* Dashboard state: the counters
    agents,             \* Dashboard state: the agent list
    recentTasks,        \* Dashboard state: the recent tasks
    loading,            \* Dashboard state: the in-progress indicator
    error,              \* Dashboard state: the cycle-level error message, or null
    healthStatus,       \* Dashboard state: the health indicator, or null
    timer,              \* the setInterval of useEffect: "unset", "active" or "cleared"
    cycles,             \* every call of loadDashboardData so far: its position and locals
    publishedBy         \* the call whose setRecentTasks/setStats came last (0: none)

VARIABLES
    authToken,          \* localStorage item 'authToken': the stored text, or null
    href,               \* window.location.href (the path)
    requests            \* the requests made through the axios instance, in order: the
                        \* Authorization header sent, and how the promise settled

wsVars == <<ws, listeners, sockets, timers, dispatch, pass, callerDisconnected>>
dashVars ==
    <<stats, agents, recentTasks, loading, error, healthStatus, timer, cycles, publishedBy>>
httpVars == <<authToken, href, requests>>
vars == <<wsVars, dashVars, httpVars>>

\* ------------------------------------------------------------ value domains
Topics == {"agent_status", "task_update"}
Callbacks == {"f", "g"}
Undefined == "undefined"

\* Text frames the server may push.
FrameAgentStatus == "{\"type\":\"agent_status\",\"agent_id\":\"a1\",\"status\":\"error\"}"
FrameTaskUpdate == "{\"type\":\"task_update\",\"task_id\":\"t1\"}"
FrameNoType == "{\"agent_id\":\"a1\"}"
FrameNull == "null"
FrameText == "hello"
RawFrames == {FrameAgentStatus, FrameTaskUpdate, FrameNoType, FrameNull, FrameText}

\* JSON.parse(event.data): a SyntaxError for text that is no JSON, else the value.
\* A value is [kind, type, body]: type is the value's own "type" property.
JSONParse(raw) ==
    CASE raw = FrameAgentStatus ->
           [threw |-> FALSE,
            value |-> [kind |-> "object", type |-> "agent_status",
                       body |-> "agent_id=a1,status=error"]]
      [] raw = FrameTaskUpdate ->
           [threw |-> FALSE,
            value |-> [kind |-> "object", type |-> "task_update", body |-> "task_id=t1"]]
      [] raw = FrameNoType ->
           [threw |-> FALSE,
            value |-> [kind |-> "object", type |-> Undefined, body |-> "agent_id=a1"]]
      [] raw = FrameNull ->
           [threw |-> FALSE, value |-> [kind |-> "null", type |-> Undefined, body |-> ""]]
      [] OTHER ->
           [threw |-> TRUE, value |-> [kind |-> "none", type |-> Undefined, body |-> ""]]

\* GetType as a handler that falls back to a default topic would read it
\* (data?.type || "agent_status"): no TypeError, no undefined.
GetTypeDefaulting(data) ==
    [threw |-> FALSE,
     value |-> IF data.type = Undefined THEN "agent_status" ELSE data.type]

\* data.type: a TypeError when data is null, undefined when the property is absent.
GetType(data) ==
    IF data.kind = "null"
    THEN [threw |-> TRUE, value |-> Undefined]
    ELSE [threw |-> FALSE, value |-> data.type]

\* this.listeners.get(eventType) || []
ListenersGet(L, eventType) ==
    IF eventType \in DOMAIN L THEN L[eventType] ELSE <<>>

NoDispatch == [active |-> FALSE, topic |-> Undefined, k |-> 0, len |-> 0, ops |-> 0]
NoData == [kind |-> "none", type |-> Undefined, body |-> ""]
NoPass ==
    [raw |-> "", data |-> NoData, topic |-> Undefined, start |-> <<>>, calls |-> <<>>,
     threw |-> FALSE, mutated |-> FALSE, caught |-> FALSE, logged |-> ""]

NewSocket == [state |-> "CONNECTING"]

\* new Map()
EmptyMap == [t \in {} |-> <<>>]

InitWS ==
    /\ ws = 0
    /\ listeners = EmptyMap
    /\ sockets = <<>>
    /\ timers = 0
    /\ dispatch = NoDispatch
    /\ pass = NoPass
    /\ callerDisconnected = FALSE

\* -------------------------------------------------------- the registry
\* subscribe(eventType, callback): create the array if absent, then push.
SubscribeOp(L, eventType, callback) ==
    LET base == IF eventType \in DOMAIN L THEN L ELSE (eventType :> <<>>) @@ L
    IN [base EXCEPT ![eventType] = Append(@, callback)]

\* IndexOf as lastIndexOf would search: the last index, 0 for -1.
IndexOfLast(list, callback) ==
    IF \E i \in 1..Len(list) : list[i] = callback
    THEN CHOOSE i \in 1..Len(list) :
            /\ list[i] = callback
            /\ \A j \in (i + 1)..Len(list) : list[j] # callback
    ELSE 0

\* listeners.indexOf(callback): the first index (1-based here), 0 for -1.
IndexOf(list, callback) ==
    IF \E i \in 1..Len(list) : list[i] = callback
    THEN CHOOSE i \in 1..Len(list) :
            /\ list[i] = callback
            /\ \A j \in 1..(i - 1) : list[j] # callback
    ELSE 0

\* listeners.splice(index, 1)
Splice(list, index) ==
    [i \in 1..(Len(list) - 1) |-> IF i < index THEN list[i] ELSE list[i + 1]]

\* unsubscribe(eventType, callback)
UnsubscribeOp(L, eventType, callback) ==
    IF eventType \in DOMAIN L
    THEN LET index == IndexOf(L[eventType], callback)
         IN IF index > 0
            THEN [L EXCEPT ![eventType] = Splice(@, index)]
            ELSE L
    ELSE L

Dispatching == dispatch.active

\* The number of registrations the registry holds, all topics together.
Registrations(L) ==
    LET F[T \in SUBSET Topics] ==
            IF T = {} THEN 0
            ELSE LET t == CHOOSE x \in T : TRUE
                 IN Len(ListenersGet(L, t)) + F[T \ {t}]
    IN F[Topics]

\* The caller's subscribe(), outside any dispatch.
Subscribe(eventType, callback) ==
    /\ ~Dispatching
    /\ Registrations(listeners) < MaxListeners
    /\ listeners' = SubscribeOp(listeners, eventType, callback)
    /\ UNCHANGED <<ws, sockets, timers, dispatch, callerDisconnected>>
    /\ pass' = NoPass
    /\ UNCHANGED <<dashVars, httpVars>>

\* The caller's unsubscribe(), outside any dispatch.
Unsubscribe(eventType, callback) ==
    /\ ~Dispatching
    /\ listeners' = UnsubscribeOp(listeners, eventType, callback)
    /\ UNCHANGED <<ws, sockets, timers, dispatch, callerDisconnected>>
    /\ pass' = NoPass
    /\ UNCHANGED <<dashVars, httpVars>>

\* ------------------------------------------------------ the connection
\* The body of connect(): a new WebSocket with the four handlers, stored in this.ws.
ConnectOp ==
    /\ sockets' = Append(sockets, NewSocket)
    /\ ws' = Len(sockets) + 1

\* The caller's connect().
Connect ==
    /\ ~Dispatching
    /\ Len(sockets) < MaxSockets
    /\ ConnectOp
    /\ callerDisconnected' = FALSE
    /\ UNCHANGED <<listeners, timers, dispatch>>
    /\ pass' = NoPass
    /\ UNCHANGED <<dashVars, httpVars>>

\* WebSocket.close(): starts the closing handshake of a socket not yet closing.
CloseSocket(s) ==
    IF s.state \in {"CONNECTING", "OPEN"} THEN [s EXCEPT !.state = "CLOSING"] ELSE s

\* The caller's disconnect(): close() does nothing on a WebSocket that has closed.
Disconnect ==
    /\ ~Dispatching
    /\ IF ws # 0
       THEN /\ sockets' = IF ws > 0 THEN [sockets EXCEPT ![ws] = CloseSocket(@)] ELSE sockets
            /\ ws' = 0
       ELSE UNCHANGED <<sockets, ws>>
    /\ callerDisconnected' = TRUE
    /\ UNCHANGED <<listeners, timers, dispatch>>
    /\ pass' = NoPass
    /\ UNCHANGED <<dashVars, httpVars>>

\* The transport's open event: onopen only logs.
OnOpen(i) ==
    /\ ~Dispatching
    /\ sockets[i].state = "CONNECTING"
    /\ sockets' = [sockets EXCEPT ![i].state = "OPEN"]
    /\ UNCHANGED <<ws, listeners, timers, dispatch, callerDisconnected>>
    /\ pass' = NoPass
    /\ UNCHANGED <<dashVars, httpVars>>

\* OnCloseHandler as an onclose that only logs would leave the timers.
OnCloseHandlerLogOnly ==
    timers' = timers

\* What onclose does: setTimeout(() => this.connect(), 5000).
OnCloseHandler ==
    timers' = timers + 1

\* sockets without its i-th entry.
RemoveAt(seq, i) ==
    [n \in 1..(Len(seq) - 1) |-> IF n < i THEN seq[n] ELSE seq[n + 1]]

\* The transport's close event (the peer closed, the network failed, or close()
\* finished its handshake): the socket is CLOSED, fires no further event, and
\* onclose runs. this.ws is not reset: it may go on referring to the closed socket.
OnClose(i) ==
    /\ ~Dispatching
    /\ sockets[i].state \in {"CONNECTING", "OPEN", "CLOSING"}
    /\ timers < MaxTimers
    /\ sockets' = RemoveAt(sockets, i)
    /\ ws' = IF ws = i THEN -1 ELSE IF ws > i THEN ws - 1 ELSE ws
    /\ OnCloseHandler
    /\ UNCHANGED <<listeners, dispatch, callerDisconnected>>
    /\ pass' = NoPass
    /\ UNCHANGED <<dashVars, httpVars>>

\* The transport's error event: onerror only logs.
OnError(i) ==
    /\ ~Dispatching
    /\ sockets[i].state \in {"CONNECTING", "OPEN", "CLOSING"}
    /\ pass' = [NoPass EXCEPT !.logged = "WebSocket error:"]
    /\ UNCHANGED <<ws, listeners, sockets, timers, dispatch, callerDisconnected>>
    /\ UNCHANGED <<dashVars, httpVars>>

\* A reconnect timer fires: () => this.connect().
TimerFire ==
    /\ ~Dispatching
    /\ timers > 0
    /\ Len(sockets) < MaxSockets
    /\ timers' = timers - 1
    /\ ConnectOp
    /\ UNCHANGED <<listeners, dispatch, callerDisconnected>>
    /\ pass' = NoPass
    /\ UNCHANGED <<dashVars, httpVars>>

\* ------------------------------------------------------- frame dispatch
\* ForEachNext as a loop that steps over every other element would advance.
ForEachNextSkipping(list, k, len) ==
    IF k + 2 <= len /\ k + 2 <= Len(list) THEN k + 2 ELSE 0

\* Array.prototype.forEach after the callback at index k returned: the next index
\* below the length read when the loop began that the live array still holds
\* (0: the loop ends). The array only shrinks or grows at its end while the loop
\* runs, so an index beyond its length stays absent for the rest of the loop.
ForEachNext(list, k, len) ==
    IF k + 1 <= len /\ k + 1 <= Len(list) THEN k + 1 ELSE 0

\* ws.onmessage up to the first callback's invocation: parse, read data.type, look
\* the listeners up and start forEach over the registry's own array.
OnMessageHandler(raw) ==
    LET parsed == JSONParse(raw)
        type == GetType(parsed.value)
    IN IF parsed.threw \/ type.threw
       THEN \* catch (error) { console.error(...) }
            /\ pass' = [NoPass EXCEPT !.raw = raw, !.caught = TRUE,
                                      !.logged = "Error parsing WebSocket message:"]
            /\ dispatch' = NoDispatch
       ELSE LET list == ListenersGet(listeners, type.value)
                begun == [NoPass EXCEPT !.raw = raw, !.data = parsed.value,
                                        !.topic = type.value, !.start = list]
            IN IF Len(list) = 0
               THEN /\ pass' = begun
                    /\ dispatch' = NoDispatch
               ELSE /\ pass' = [begun EXCEPT
                                  !.calls = <<[cb |-> list[1], arg |-> parsed.value]>>]
                    /\ dispatch' = [active |-> TRUE, topic |-> type.value, k |-> 1,
                                    len |-> Len(list), ops |-> 0]

\* The transport's message event on an open socket.
OnMessage(i, raw) ==
    /\ ~Dispatching
    /\ sockets[i].state = "OPEN"
    /\ OnMessageHandler(raw)
    /\ UNCHANGED <<ws, listeners, sockets, timers, callerDisconnected>>
    /\ UNCHANGED <<dashVars, httpVars>>

\* The callback being invoked calls subscribe().
CallbackSubscribe(eventType, callback) ==
    /\ Dispatching
    /\ dispatch.ops < MaxCallbackOps
    /\ Registrations(listeners) < MaxListeners
    /\ listeners' = SubscribeOp(listeners, eventType, callback)
    /\ dispatch' = [dispatch EXCEPT !.ops = @ + 1]
    /\ pass' = [pass EXCEPT !.mutated = TRUE]
    /\ UNCHANGED <<ws, sockets, timers, callerDisconnected>>
    /\ UNCHANGED <<dashVars, httpVars>>

\* The callback being invoked calls unsubscribe() of a registered callback.
CallbackUnsubscribe(eventType, callback) ==
    /\ Dispatching
    /\ dispatch.ops < MaxCallbackOps
    /\ IndexOf(ListenersGet(listeners, eventType), callback) > 0
    /\ listeners' = UnsubscribeOp(listeners, eventType, callback)
    /\ dispatch' = [dispatch EXCEPT !.ops = @ + 1]
    /\ pass' = [pass EXCEPT !.mutated = TRUE]
    /\ UNCHANGED <<ws, sockets, timers, callerDisconnected>>
    /\ UNCHANGED <<dashVars, httpVars>>

\* The callback being invoked returns: forEach goes on to the next index.
CallbackReturn ==
    /\ Dispatching
    /\ LET list == ListenersGet(listeners, dispatch.topic)
           next == ForEachNext(list, dispatch.k, dispatch.len)
       IN IF next > 0
          THEN /\ pass' = [pass EXCEPT
                             !.calls = Append(@, [cb |-> list[next], arg |-> pass.data])]
               /\ dispatch' = [dispatch EXCEPT !.k = next, !.ops = 0]
          ELSE /\ dispatch' = NoDispatch
               /\ UNCHANGED pass
    /\ UNCHANGED <<ws, listeners, sockets, timers, callerDisconnected>>
    /\ UNCHANGED <<dashVars, httpVars>>

\* The callback being invoked throws: the exception leaves forEach and lands in
\* onmessage's catch, which logs it.
CallbackThrow ==
    /\ Dispatching
    /\ dispatch' = NoDispatch
    /\ pass' = [pass EXCEPT !.threw = TRUE, !.caught = TRUE,
                             !.logged = "Error parsing WebSocket message:"]
    /\ UNCHANGED <<ws, listeners, sockets, timers, callerDisconnected>>
    /\ UNCHANGED <<dashVars, httpVars>>

NextWS ==
    \/ \E t \in Topics, cb \in Callbacks : Subscribe(t, cb)
    \/ \E t \in Topics, cb \in Callbacks : Unsubscribe(t, cb)
    \/ Connect
    \/ Disconnect
    \/ \E i \in 1..Len(sockets) : OnOpen(i)
    \/ \E i \in 1..Len(sockets) : OnClose(i)
    \/ \E i \in 1..Len(sockets) : OnError(i)
    \/ TimerFire
    \/ \E i \in 1..Len(sockets), raw \in RawFrames : OnMessage(i, raw)
    \/ CallbackReturn
    \/ CallbackThrow

\* The service on one connection that stays up, with callbacks that call
\* subscribe() and unsubscribe() while a frame is dispatched to them.
NextRouter ==
    \/ \E t \in Topics, cb \in Callbacks : Subscribe(t, cb)
    \/ \E t \in Topics, cb \in Callbacks : Unsubscribe(t, cb)
    \/ (ws = 0 /\ Connect)
    \/ \E i \in 1..Len(sockets) : OnOpen(i)
    \/ \E i \in 1..Len(sockets), raw \in RawFrames : OnMessage(i, raw)
    \/ \E t \in Topics, cb \in Callbacks : CallbackSubscribe(t, cb)
    \/ \E t \in Topics, cb \in Callbacks : CallbackUnsubscribe(t, cb)
    \/ CallbackReturn
    \/ CallbackThrow

\* The service after the caller's one connect() and with no disconnect(): the
\* transport opens, carries frames, fails and closes as it likes.
NextReconnect ==
    \/ \E t \in Topics, cb \in Callbacks : Subscribe(t, cb)
    \/ \E t \in Topics, cb \in Callbacks : Unsubscribe(t, cb)
    \/ (ws = 0 /\ ~callerDisconnected /\ Connect)
    \/ \E i \in 1..Len(sockets) : OnOpen(i)
    \/ \E i \in 1..Len(sockets) : OnClose(i)
    \/ \E i \in 1..Len(sockets) : OnError(i)
    \/ TimerFire
    \/ \E i \in 1..Len(sockets), raw \in RawFrames : OnMessage(i, raw)
    \/ CallbackReturn
    \/ CallbackThrow

\* ------------------------------------------------- Dashboard: the data
RecentLimit == 10

NoError == "null"
NoHealth == [status |-> "null"]
HealthValues == {[status |-> "healthy"], [status |-> "unhealthy"]}

\* What a rejected fetch throws: axios rejects with an Error.
Errors ==
    {[isError |-> TRUE, message |-> "Network Error"],
     [isError |-> TRUE, message |-> "Request failed with status code 500"]}

\* err instanceof Error ? err.message : 'Failed to load dashboard data'
ErrMessage(err) ==
    IF err.isError THEN err.message ELSE "Failed to load dashboard data"

Agent(id, status) == [id |-> id, status |-> status]
AgentA1 == Agent("a1", "running")
AgentA2 == Agent("a2", "stopped")
AgentA3 == Agent("a3", "idle")
\* Responses of GET /agents.
AgentSets == {<<>>, <<AgentA1, AgentA2>>, <<AgentA3>>}

Task(id, agentId, status, createdAt) ==
    [id |-> id, agent_id |-> agentId, status |-> status, created_at |-> createdAt]

\* new Date(created_at).getTime(), in seconds: the instant the text denotes.
DateGetTime(text) ==
    CASE text = "2024-01-01T10:00:00Z" -> 1704103200
      [] text = "2024-01-01T10:00:00.000Z" -> 1704103200
      [] text = "2024-01-01T12:30:00+02:00" -> 1704105000
      [] text = "2024-01-01T11:00:00Z" -> 1704106800
      [] text = "2024-01-02T09:00:00Z" -> 1704186000

ShortTasks(a) ==
    <<Task("T1", a, "completed", "2024-01-01T10:00:00Z"),
      Task("T2", a, "running", "2024-01-01T11:00:00Z")>>
LongTasks(a) ==
    <<Task("L1", a, "completed", "2024-01-01T10:00:00.000Z"),
      Task("L2", a, "failed", "2024-01-02T09:00:00Z"),
      Task("L3", a, "pending", "2024-01-01T12:30:00+02:00"),
      Task("L4", a, "running", "2024-01-01T11:00:00Z"),
      Task("L5", a, "completed", "2024-01-01T10:00:00Z"),
      Task("L6", a, "failed", "2024-01-01T12:30:00+02:00")>>
\* Responses of GET /agents/{id}/tasks.
TaskResponses(agentId) == {ShortTasks(agentId), LongTasks(agentId)}

\* The comparator of line 99 as its mirror image would order: oldest first.
CompareTasksAscending(a, b) ==
    DateGetTime(a.created_at) - DateGetTime(b.created_at)

\* (a, b) => new Date(b.created_at).getTime() - new Date(a.created_at).getTime()
CompareTasks(a, b) ==
    DateGetTime(b.created_at) - DateGetTime(a.created_at)

\* One insertion of a stable sort: x goes before the first element the comparator
\* puts after it, so after every element it ties with.
InsertSorted(sorted, x) ==
    LET after == {i \in 1..Len(sorted) : CompareTasks(sorted[i], x) > 0}
    IN IF after = {}
       THEN Append(sorted, x)
       ELSE LET p == CHOOSE i \in after : \A j \in after : i <= j
            IN SubSeq(sorted, 1, p - 1) \o <<x>> \o SubSeq(sorted, p, Len(sorted))

\* Array.prototype.sort with the comparator: stable (ECMAScript 2019).
ArraySort(seq) ==
    LET F[n \in 0..Len(seq)] ==
            IF n = 0 THEN <<>> ELSE InsertSorted(F[n - 1], seq[n])
    IN F[Len(seq)]

\* seq.slice(0, n)
Slice(seq, n) ==
    SubSeq(seq, 1, IF Len(seq) < n THEN Len(seq) ELSE n)

CountStatus(seq, statuses) ==
    Cardinality({i \in 1..Len(seq) : seq[i].status \in statuses})

\* ComputeStats as it would count if the task counters were taken from the
\* displayed slice instead of the whole merged list.
ComputeStatsOfRecent(agentsData, allTasks) ==
    [totalAgents |-> Len(agentsData),
     activeAgents |-> CountStatus(agentsData, {"running", "idle"}),
     totalTasks |-> Len(Slice(allTasks, RecentLimit)),
     completedTasks |-> CountStatus(Slice(allTasks, RecentLimit), {"completed"}),
     failedTasks |-> CountStatus(Slice(allTasks, RecentLimit), {"failed"}),
     runningTasks |-> CountStatus(Slice(allTasks, RecentLimit), {"running"})]

\* The statistics of lines 104-121.
ComputeStats(agentsData, allTasks) ==
    [totalAgents |-> Len(agentsData),
     activeAgents |-> CountStatus(agentsData, {"running", "idle"}),
     totalTasks |-> Len(allTasks),
     completedTasks |-> CountStatus(allTasks, {"completed"}),
     failedTasks |-> CountStatus(allTasks, {"failed"}),
     runningTasks |-> CountStatus(allTasks, {"running"})]

TasksUrl(agent) == "GET /agents/" \o agent.id \o "/tasks"

\* A call of loadDashboardData awaiting agentApi.getAgents(). afterError: the call
\* began while an error was displayed and no earlier call was still running.
NewCycle(afterError) ==
    [pc |-> "getAgents", agentsData |-> <<>>, idx |-> 0, allTasks |-> <<>>,
     results |-> <<>>, issued |-> <<"GET /agents">>, failed |-> FALSE,
     published |-> FALSE, afterError |-> afterError]

\* The call returns: its locals (agentsData, allTasks) are gone. What it did stays
\* on record: the requests it issued, whether it published, whether it failed.
Return(cyc) ==
    [cyc EXCEPT !.pc = "done", !.agentsData = <<>>, !.idx = 0, !.allTasks = <<>>,
                !.results = <<>>]

InitDash ==
    /\ stats = [totalAgents |-> 0, activeAgents |-> 0, totalTasks |-> 0,
                completedTasks |-> 0, failedTasks |-> 0, runningTasks |-> 0]
    /\ agents = <<>>
    /\ recentTasks = <<>>
    /\ loading = TRUE
    /\ error = NoError
    /\ healthStatus = NoHealth
    /\ timer = "unset"
    /\ cycles = <<>>
    /\ publishedBy = 0

\* ------------------------------------------------ Dashboard: the cycle
\* BeginLoad without the reset of the error.
BeginLoadKeepingError ==
    /\ loading' = TRUE
    /\ UNCHANGED error

\* setLoading(true); setError(null);
BeginLoad ==
    /\ loading' = TRUE
    /\ error' = NoError

\* loadDashboardData() up to its first await.
StartCycle ==
    /\ BeginLoad
    /\ cycles' = Append(cycles,
                        NewCycle(error # NoError
                                 /\ \A c \in 1..Len(cycles) : cycles[c].pc = "done"))
    /\ UNCHANGED <<stats, agents, recentTasks, healthStatus, publishedBy>>

\* useEffect on mount: the first call, and setInterval(loadDashboardData, 30000).
Mount ==
    /\ timer = "unset"
    /\ timer' = "active"
    /\ StartCycle
    /\ UNCHANGED <<wsVars, httpVars>>

\* Tick as an interval that was never cleared would go on firing.
TickAfterClear ==
    /\ timer \in {"active", "cleared"}
    /\ Len(cycles) < MaxCycles
    /\ StartCycle
    /\ UNCHANGED timer
    /\ UNCHANGED <<wsVars, httpVars>>

\* The interval fires.
Tick ==
    /\ timer = "active"
    /\ Len(cycles) < MaxCycles
    /\ StartCycle
    /\ UNCHANGED timer
    /\ UNCHANGED <<wsVars, httpVars>>

\* The effect's cleanup on unmount: clearInterval(interval).
Unmount ==
    /\ timer = "active"
    /\ timer' = "cleared"
    /\ UNCHANGED <<stats, agents, recentTasks, loading, error, healthStatus, cycles,
                   publishedBy>>
    /\ UNCHANGED <<wsVars, httpVars>>

\* Lines 97-125, once the loop over the agents is over: sort allTasks in place,
\* setRecentTasks, setStats, then await healthApi.getHealth().
SortAndPublish(c, cyc) ==
    LET sortedTasks == ArraySort(cyc.allTasks)
    IN /\ recentTasks' = Slice(sortedTasks, RecentLimit)
       /\ stats' = ComputeStats(cyc.agentsData, sortedTasks)
       /\ publishedBy' = c
       /\ cycles' = [cycles EXCEPT ![c] =
                        [cyc EXCEPT !.allTasks = sortedTasks, !.pc = "getHealth",
                                    !.published = TRUE,
                                    !.issued = Append(@, "GET /health")]]

\* ContinueLoop as a loop that does not wait for the remaining agents would go on:
\* straight to the sort and the counters.
ContinueLoopLeavingEarly(c, cyc) ==
    SortAndPublish(c, cyc)

\* The for-of loop after the fetch for agent idx settled: await the next agent's
\* tasks, or leave the loop.
ContinueLoop(c, cyc) ==
    IF cyc.idx < Len(cyc.agentsData)
    THEN /\ cycles' = [cycles EXCEPT ![c] =
                          [cyc EXCEPT !.idx = @ + 1,
                                      !.issued = Append(@, TasksUrl(cyc.agentsData[cyc.idx + 1]))]]
         /\ UNCHANGED <<recentTasks, stats, publishedBy>>
    ELSE SortAndPublish(c, cyc)

\* agentApi.getAgents() resolves: setAgents, then into the loop.
AgentsResolve(c, data) ==
    /\ cycles[c].pc = "getAgents"
    /\ agents' = data
    /\ ContinueLoop(c, [cycles[c] EXCEPT !.pc = "getTasks", !.agentsData = data])
    /\ UNCHANGED <<loading, error, healthStatus, timer>>
    /\ UNCHANGED <<wsVars, httpVars>>

\* AgentsReject with a catch block that also empties the agent list.
AgentsRejectClearing(c, err) ==
    /\ cycles[c].pc = "getAgents"
    /\ error' = ErrMessage(err)
    /\ loading' = FALSE
    /\ agents' = <<>>
    /\ cycles' = [cycles EXCEPT ![c] = Return([@ EXCEPT !.failed = TRUE])]
    /\ UNCHANGED <<stats, recentTasks, healthStatus, timer, publishedBy>>
    /\ UNCHANGED <<wsVars, httpVars>>

\* agentApi.getAgents() rejects: the outer catch and finally.
AgentsReject(c, err) ==
    /\ cycles[c].pc = "getAgents"
    /\ error' = ErrMessage(err)
    /\ loading' = FALSE
    /\ cycles' = [cycles EXCEPT ![c] = Return([@ EXCEPT !.failed = TRUE])]
    /\ UNCHANGED <<stats, agents, recentTasks, healthStatus, timer, publishedBy>>
    /\ UNCHANGED <<wsVars, httpVars>>

\* taskApi.getAgentTasks(agent.id) resolves: allTasks.push(...agentTasks).
TasksResolve(c, tasks) ==
    /\ cycles[c].pc = "getTasks"
    /\ tasks \in TaskResponses(cycles[c].agentsData[cycles[c].idx].id)
    /\ ContinueLoop(c, [cycles[c] EXCEPT
                          !.allTasks = @ \o tasks,
                          !.results = Append(@, [ok |-> TRUE, tasks |-> tasks])])
    /\ UNCHANGED <<agents, loading, error, healthStatus, timer>>
    /\ UNCHANGED <<wsVars, httpVars>>

\* TasksReject without the inner try/catch: the rejection reaches the outer catch.
TasksRejectAborting(c, err) ==
    /\ cycles[c].pc = "getTasks"
    /\ error' = ErrMessage(err)
    /\ loading' = FALSE
    /\ cycles' = [cycles EXCEPT ![c] = Return([@ EXCEPT !.failed = TRUE])]
    /\ UNCHANGED <<stats, agents, recentTasks, healthStatus, timer, publishedBy>>
    /\ UNCHANGED <<wsVars, httpVars>>

\* taskApi.getAgentTasks(agent.id) rejects: the inner catch warns and the loop goes on.
TasksReject(c, err) ==
    /\ cycles[c].pc = "getTasks"
    /\ ContinueLoop(c, [cycles[c] EXCEPT
                          !.results = Append(@, [ok |-> FALSE, tasks |-> <<>>])])
    /\ UNCHANGED <<agents, loading, error, healthStatus, timer>>
    /\ UNCHANGED <<wsVars, httpVars>>

\* healthApi.getHealth() resolves: setHealthStatus, then finally.
HealthResolve(c, health) ==
    /\ cycles[c].pc = "getHealth"
    /\ healthStatus' = health
    /\ loading' = FALSE
    /\ cycles' = [cycles EXCEPT ![c] = Return(@)]
    /\ UNCHANGED <<stats, agents, recentTasks, error, timer, publishedBy>>
    /\ UNCHANGED <<wsVars, httpVars>>

\* HealthReject without the finally block: the in-progress indicator stays.
HealthRejectKeepingLoading(c, err) ==
    /\ cycles[c].pc = "getHealth"
    /\ cycles' = [cycles EXCEPT ![c] = Return(@)]
    /\ UNCHANGED <<stats, agents, recentTasks, loading, error, healthStatus, timer,
                   publishedBy>>
    /\ UNCHANGED <<wsVars, httpVars>>

\* healthApi.getHealth() rejects: the catch warns, then finally.
HealthReject(c, err) ==
    /\ cycles[c].pc = "getHealth"
    /\ loading' = FALSE
    /\ cycles' = [cycles EXCEPT ![c] = Return(@)]
    /\ UNCHANGED <<stats, agents, recentTasks, error, healthStatus, timer, publishedBy>>
    /\ UNCHANGED <<wsVars, httpVars>>

NextDash ==
    \/ Mount
    \/ Tick
    \/ Unmount
    \/ \E c \in 1..Len(cycles), data \in AgentSets : AgentsResolve(c, data)
    \/ \E c \in 1..Len(cycles), err \in Errors : AgentsReject(c, err)
    \/ \E c \in 1..Len(cycles) :
          \E tasks \in TaskResponses("a1") \cup TaskResponses("a2") \cup TaskResponses("a3") :
             TasksResolve(c, tasks)
    \/ \E c \in 1..Len(cycles), err \in Errors : TasksReject(c, err)
    \/ \E c \in 1..Len(cycles), health \in HealthValues : HealthResolve(c, health)
    \/ \E c \in 1..Len(cycles), err \in Errors : HealthReject(c, err)

\* ------------------------------------------------------ the HTTP client
NoToken == "null"
\* Texts the login flow may have stored; the empty text is falsy.
Tokens == {"", "tok1"}
NoHeader == "none"
StatusUnauthorized == 401

\* What a failed request rejects with: an AxiosError with the response's status,
\* or without response (network failure, timeout).
HttpErrors ==
    {[hasResponse |-> TRUE, status |-> 401],
     [hasResponse |-> TRUE, status |-> 403],
     [hasResponse |-> TRUE, status |-> 500],
     [hasResponse |-> FALSE, status |-> 0]}
NoHttpError == [hasResponse |-> FALSE, status |-> -1]

\* IsUnauthorized as a handler that treats 403 like 401 would decide.
IsUnauthorizedOrForbidden(err) ==
    err.hasResponse /\ err.status \in {401, 403}

\* error.response?.status === 401
IsUnauthorized(err) ==
    err.hasResponse /\ err.status = StatusUnauthorized

\* The request interceptor: the Authorization header it leaves on config.
RequestInterceptor(token) ==
    IF token # NoToken /\ token # "" THEN "Bearer " \o token ELSE NoHeader

InitHttp ==
    /\ authToken = NoToken
    /\ href = "/"
    /\ requests = <<>>

\* The login flow stores a token (localStorage.setItem, outside this module).
SetItem(token) ==
    /\ authToken' = token
    /\ UNCHANGED <<href, requests>>
    /\ UNCHANGED <<wsVars, dashVars>>

\* A call through the axios instance: the request interceptor runs, the request
\* is sent.
Request ==
    /\ Len(requests) < MaxRequests
    /\ requests' = Append(requests,
                          [authorization |-> RequestInterceptor(authToken),
                           state |-> "pending", error |-> NoHttpError])
    /\ UNCHANGED <<authToken, href>>
    /\ UNCHANGED <<wsVars, dashVars>>

\* A 2xx response: (response) => response.
ResponseFulfilled(r) ==
    /\ requests[r].state = "pending"
    /\ requests' = [requests EXCEPT ![r].state = "fulfilled"]
    /\ UNCHANGED <<authToken, href>>
    /\ UNCHANGED <<wsVars, dashVars>>

\* Any other outcome: the response interceptor's error handler, which ends in
\* Promise.reject(error).
ResponseRejected(r, err) ==
    /\ requests[r].state = "pending"
    /\ IF IsUnauthorized(err)
       THEN /\ authToken' = NoToken
            /\ href' = "/login"
       ELSE UNCHANGED <<authToken, href>>
    /\ requests' = [requests EXCEPT ![r].state = "rejected", ![r].error = err]
    /\ UNCHANGED <<wsVars, dashVars>>

NextHttp ==
    \/ \E token \in Tokens : SetItem(token)
    \/ Request
    \/ \E r \in 1..Len(requests) : ResponseFulfilled(r)
    \/ \E r \in 1..Len(requests), err \in HttpErrors : ResponseRejected(r, err)

Init == InitWS /\ InitDash /\ InitHttp

SpecWS == Init /\ [][NextWS]_vars

SpecRouter == Init /\ [][NextRouter]_vars

SpecDash == Init /\ [][NextDash]_vars

SpecHttp == Init /\ [][NextHttp]_vars

\* The dashboard's steps with one response per outcome of every fetch: an agent
\* set that is empty or has two agents, and each fetch succeeding or failing.
NextCycles ==
    \/ Mount
    \/ Tick
    \/ Unmount
    \/ \E c \in 1..Len(cycles), data \in {<<>>, <<AgentA1, AgentA2>>} : AgentsResolve(c, data)
    \/ \E c \in 1..Len(cycles) : AgentsReject(c, [isError |-> TRUE, message |-> "Network Error"])
    \/ \E c \in 1..Len(cycles), a \in {"a1", "a2"} : TasksResolve(c, ShortTasks(a))
    \/ \E c \in 1..Len(cycles) : TasksReject(c, [isError |-> TRUE, message |-> "Network Error"])
    \/ \E c \in 1..Len(cycles) : HealthResolve(c, [status |-> "healthy"])
    \/ \E c \in 1..Len(cycles) : HealthReject(c, [isError |-> TRUE, message |-> "Network Error"])

\* Call c awaits a fetch.
Pending(c) ==
    c \in 1..Len(cycles) /\ cycles[c].pc # "done"

\* The fetch call c awaits settles, one way or the other: the steps that move
\* call c on.
Settle(c) ==
    Pending(c) /\ cycles'[c] # cycles[c]

\* The dashboard with every fetch settling eventually (the axios instance has a
\* timeout of 10000 ms): weak fairness of Settle(c) for every call, written with
\* Pending(c) for ENABLED <<Settle(c)>>_vars. Whether a call finishes does not
\* depend on what the responses hold, so each fetch has one response per outcome.
SpecDashFair ==
    /\ Init
    /\ [][NextCycles]_vars
    /\ \A c \in 1..MaxCycles : ([]<>(~Pending(c)) \/ []<><<Settle(c)>>_vars)

\* A pending setTimeout callback runs once its delay is over, and a transport
\* that is not closed first completes its opening handshake.
SpecReconnect ==
    /\ Init
    /\ [][NextReconnect]_vars
    /\ WF_vars(TimerFire)
    /\ WF_vars(\E i \in 1..Len(sockets) : OnOpen(i))

\* ------------------------------------------------ properties: connection
\* The connection states of the design, read off the service's fields: the
\* transport this.ws refers to, and the pending reconnect timers.
ConnState ==
    IF ws > 0 /\ sockets[ws].state = "CONNECTING" THEN "Connecting"
    ELSE IF ws > 0 /\ sockets[ws].state = "OPEN" THEN "Connected"
    ELSE IF timers > 0 THEN "ReconnectScheduled"
    ELSE "Disconnected"

\* The callbacks the pass invoked, in order.
CalledCallbacks == [n \in 1..Len(pass.calls) |-> pass.calls[n].cb]

\* C1: after disconnect() has returned and until the caller calls connect()
\* again, the service itself makes no connect attempt: no reconnect timer fires
\* into connect().
C1_NoConnectAfterDisconnect ==
    [][~(callerDisconnected /\ TimerFire)]_vars

\* C2: connect() called while Connecting or Connected opens no new transport and
\* leaves this.ws and the transports as they were.
C2_ConnectNoOpWhenLive ==
    [][(ConnState \in {"Connecting", "Connected"} /\ Connect)
         => (sockets' = sockets /\ ws' = ws)]_vars

\* ---------------------------------------------------- properties: dispatch
\* C3: a dispatch pass in which callbacks subscribe or unsubscribe (and none
\* raises) invokes exactly the callbacks registered for the topic when the pass
\* began, each once, in registration order.
C3_PassInvokesStartSnapshot ==
    (~Dispatching /\ pass.topic \in Topics /\ ~pass.threw)
        => CalledCallbacks = pass.start

\* C4: when a callback raises (and no callback touches the registry), the
\* callbacks registered after it are still invoked in the same pass, and the
\* failure is caught inside the frame handler.
C4_RaiseDoesNotStopPass ==
    (~Dispatching /\ pass.threw /\ ~pass.mutated)
        => (CalledCallbacks = pass.start /\ pass.caught)

\* Frames that are no JSON text, or JSON without a "type" field.
MalformedFrames == {FrameNoType, FrameNull, FrameText}

\* C5: the message event of a malformed frame invokes no callback of any topic and
\* leaves this.ws, every transport, the reconnect timers and the registry unchanged.
C5_MalformedFrameDropped ==
    [][(~Dispatching /\ pass'.raw \in MalformedFrames)
         => /\ pass'.calls = <<>>
            /\ ~dispatch'.active
            /\ ws' = ws
            /\ sockets' = sockets
            /\ timers' = timers
            /\ listeners' = listeners]_vars

\* C5's case: a frame without "type" was handled on the open connection while
\* both topics had callbacks registered.
C5_Witness ==
    /\ pass.raw = FrameNoType
    /\ ws > 0
    /\ sockets[ws].state = "OPEN"
    /\ \A t \in Topics : t \in DOMAIN listeners /\ Len(listeners[t]) > 0

\* C6: a well-formed frame of type T gives every registration on T exactly one
\* call with the parsed payload, in order, and nothing else is called.
C6_RoutedOncePerRegistration ==
    (~Dispatching /\ pass.topic \in Topics)
        => pass.calls = [n \in 1..Len(pass.start) |->
                            [cb |-> pass.start[n], arg |-> pass.data]]

\* --------------------------------------------------- properties: cycles
TimeOf(task) == DateGetTime(task.created_at)

\* The tasks the server returned to a call, agent by agent, failed fetches left out.
ReturnedTasks(results) ==
    LET F[n \in 0..Len(results)] ==
            IF n = 0 THEN <<>>
            ELSE IF results[n].ok THEN F[n - 1] \o results[n].tasks ELSE F[n - 1]
    IN F[Len(results)]

Occurrences(seq, x) == Cardinality({i \in 1..Len(seq) : seq[i] = x})

SameTasks(s, t) ==
    /\ Len(s) = Len(t)
    /\ \A i \in 1..Len(s) : Occurrences(s, s[i]) = Occurrences(t, s[i])

Failures(results) == Cardinality({n \in 1..Len(results) : ~results[n].ok})

\* C7: a call that has left the loop over its N agents, however many (K) of the
\* task fetches failed, has not failed and has published, and its merged list
\* holds exactly the tasks returned for the other N-K agents; while its snapshot
\* is the one displayed, totalTasks counts that list. A call never ends as
\* failed after its agent fetch succeeded.
C7_PartialFailureTolerated ==
    \A c \in 1..Len(cycles) :
        LET cyc == cycles[c]
        IN /\ (cyc.failed /\ cyc.pc = "done") => cyc.issued = <<"GET /agents">>
           /\ (cyc.agentsData # <<>> /\ Len(cyc.results) = Len(cyc.agentsData))
              => /\ ~cyc.failed
                 /\ cyc.published
                 /\ cyc.pc = "getHealth"
                 /\ SameTasks(cyc.allTasks, ReturnedTasks(cyc.results))
                 /\ publishedBy = c => stats.totalTasks = Len(ReturnedTasks(cyc.results))
                 /\ (publishedBy = c /\ \A d \in 1..Len(cycles) : ~cycles[d].failed)
                       => error = NoError

\* C7's case: N = 2, K = 1, and the other agent returned tasks.
C7_Witness ==
    \E c \in 1..Len(cycles) :
        /\ cycles[c].published
        /\ Len(cycles[c].agentsData) = 2
        /\ Failures(cycles[c].results) = 1
        /\ Len(cycles[c].allTasks) > 0
        /\ publishedBy = c

\* C8: the step in which a call's agent fetch fails leaves the displayed agent
\* list, recentTasks, counters and health as they were, reports an error, and the
\* call ends having issued no other fetch.
C8_AgentFetchFailurePublishesNothing ==
    [][\A c \in 1..Len(cycles) :
          (cycles[c].pc = "getAgents" /\ cycles'[c].pc = "done")
             => /\ agents' = agents
                /\ recentTasks' = recentTasks
                /\ stats' = stats
                /\ healthStatus' = healthStatus
                /\ publishedBy' = publishedBy
                /\ error' # NoError
                /\ cycles'[c].failed
                /\ ~cycles'[c].published
                /\ cycles'[c].issued = <<"GET /agents">>]_vars

\* C8's case: a call failed on the agent fetch while an earlier snapshot, with
\* agents, tasks and health, was displayed.
C8_Witness ==
    /\ \E c \in 1..Len(cycles) :
          cycles[c].failed /\ cycles[c].pc = "done" /\ publishedBy # 0 /\ publishedBy < c
    /\ agents # <<>>
    /\ recentTasks # <<>>
    /\ healthStatus # NoHealth
    /\ error # NoError

\* C9: a call started by a tick while a failed call's error was displayed (and
\* nothing else running) and not followed by another call: once it has published,
\* its snapshot is the one displayed and no error is displayed; and while an
\* error is displayed the interval still starts calls.
C9_RecoveryOnNextTick ==
    /\ \A c \in 1..Len(cycles) :
          (cycles[c].afterError /\ c = Len(cycles) /\ cycles[c].published)
             => /\ error = NoError
                /\ ~cycles[c].failed
                /\ publishedBy = c
                /\ stats.totalAgents = Len(agents)
                /\ cycles[c].pc = "getHealth" => agents = cycles[c].agentsData
    /\ (error # NoError /\ timer = "active" /\ Len(cycles) < MaxCycles) => ENABLED Tick

\* C9's case: the recovering call has finished, with agents to show.
C9_Witness ==
    \E c \in 1..Len(cycles) :
        /\ cycles[c].afterError
        /\ cycles[c].pc = "done"
        /\ cycles[c].published
        /\ c = Len(cycles)
        /\ agents # <<>>
        /\ recentTasks # <<>>

\* The place task m[j] takes in a stable descending sort of m by creation time.
Rank(m, j) ==
    1 + Cardinality({k \in 1..Len(m) : TimeOf(m[k]) > TimeOf(m[j])})
      + Cardinality({k \in 1..(j - 1) : TimeOf(m[k]) = TimeOf(m[j])})

\* C10: recentTasks always holds at most 10 tasks, newest first, and while the call
\* that published last has not returned, recentTasks is the first min(10, n)
\* entries of the stable descending sort of that call's merged list (ties in
\* fetch order).
C10_RecentTasksTopTen ==
    /\ Len(recentTasks) <= RecentLimit
    /\ \A i \in 1..(Len(recentTasks) - 1) :
          TimeOf(recentTasks[i]) >= TimeOf(recentTasks[i + 1])
    /\ (publishedBy # 0 /\ cycles[publishedBy].pc = "getHealth") =>
          LET m == ReturnedTasks(cycles[publishedBy].results)
          IN /\ Len(recentTasks) = IF Len(m) < RecentLimit THEN Len(m) ELSE RecentLimit
             /\ \A j \in 1..Len(m) :
                   Rank(m, j) <= RecentLimit => recentTasks[Rank(m, j)] = m[j]

\* C10's case: more than 10 merged tasks, cut to 10, with a tie between the tasks
\* of two agents among them.
C10_Witness ==
    /\ publishedBy # 0
    /\ cycles[publishedBy].pc = "getHealth"
    /\ Len(ReturnedTasks(cycles[publishedBy].results)) > RecentLimit
    /\ Len(recentTasks) = RecentLimit
    /\ \E i \in 1..(Len(recentTasks) - 1) :
          /\ TimeOf(recentTasks[i]) = TimeOf(recentTasks[i + 1])
          /\ recentTasks[i].agent_id # recentTasks[i + 1].agent_id

\* ------------------------------------------------- properties: counters
\* The number of entries of seq whose status is s.
WithStatus(seq, s) == Cardinality({i \in 1..Len(seq) : seq[i].status = s})

\* C11: while the call that published last has not returned, the displayed
\* counters are those of its fetched agent set and of the whole list of tasks the
\* server returned to it, however long: totalAgents and totalTasks the sizes,
\* activeAgents the running or idle agents, and one count per task status. For
\* agents [A1 running, A2 stopped], A1's tasks [T1 completed, T2 running] and A2's
\* fetch failing that is 2/1/2/1/0/1 with recentTasks [T2, T1].
C11_CountersFromFullMerge ==
    (publishedBy # 0 /\ cycles[publishedBy].pc = "getHealth") =>
        LET cyc == cycles[publishedBy]
            m == ReturnedTasks(cyc.results)
        IN /\ stats.totalAgents = Len(cyc.agentsData)
           /\ stats.activeAgents =
                 WithStatus(cyc.agentsData, "running") + WithStatus(cyc.agentsData, "idle")
           /\ stats.totalTasks = Len(m)
           /\ stats.completedTasks = WithStatus(m, "completed")
           /\ stats.failedTasks = WithStatus(m, "failed")
           /\ stats.runningTasks = WithStatus(m, "running")
           /\ (/\ cyc.agentsData = <<AgentA1, AgentA2>>
               /\ cyc.results = <<[ok |-> TRUE, tasks |-> ShortTasks("a1")],
                                  [ok |-> FALSE, tasks |-> <<>>]>>)
                 => /\ stats = [totalAgents |-> 2, activeAgents |-> 1, totalTasks |-> 2,
                                completedTasks |-> 1, failedTasks |-> 0, runningTasks |-> 1]
                    /\ [i \in 1..Len(recentTasks) |-> recentTasks[i].id] = <<"T2", "T1">>

\* C11's case: more tasks merged than are displayed, tasks of a status no counter
\* counts among them, and an agent that is not active.
C11_Witness ==
    /\ publishedBy # 0
    /\ cycles[publishedBy].pc = "getHealth"
    /\ stats.totalTasks > RecentLimit
    /\ Len(recentTasks) = RecentLimit
    /\ stats.completedTasks + stats.failedTasks + stats.runningTasks < stats.totalTasks
    /\ stats.failedTasks > 0
    /\ stats.totalAgents = 2
    /\ stats.activeAgents = 1

\* C12: the step in which a call's health fetch fails reports no error, leaves the
\* published agents, recentTasks and counters in place, and leaves the displayed
\* health null, whatever an earlier call had set it to.
C12_HealthFailureLeavesHealthNull ==
    [][\A c \in 1..Len(cycles) :
          (\E err \in Errors : HealthReject(c, err))
             => /\ error' = error
                /\ ~cycles'[c].failed
                /\ cycles'[c].published
                /\ agents' = agents /\ recentTasks' = recentTasks /\ stats' = stats
                /\ healthStatus' = NoHealth]_vars

\* C13: in every state the rendering layer can observe once a snapshot was
\* published, the displayed agent list and the displayed counters come from the
\* same call: totalAgents is the length of the displayed agent list.
C13_SnapshotReplacedAsAWhole ==
    publishedBy # 0 => stats.totalAgents = Len(agents)

\* ------------------------------------------------ properties: reconnect
\* C14: with no disconnect() by the caller, every close of a transport schedules
\* one reconnect timer; every timer that fires calls connect(), which opens a new
\* transport and makes it the current one; a scheduled reconnect always leads to
\* a new attempt, however many came before; and unless transports go on closing
\* for ever, the connection ends up Connected and stays so.
C14_ReconnectLoop ==
    /\ [][(~callerDisconnected /\ \E i \in 1..Len(sockets) : OnClose(i))
             => timers' = timers + 1]_vars
    /\ [][TimerFire => /\ timers' = timers - 1
                       /\ Len(sockets') = Len(sockets) + 1
                       /\ ws' = Len(sockets')
                       /\ sockets'[ws'].state = "CONNECTING"]_vars
    /\ (timers > 0 /\ ~callerDisconnected) ~> (ConnState = "Connecting")
    /\ \/ []<><<\E i \in 1..Len(sockets) : OnClose(i)>>_vars
       \/ <>[](ws = 0)
       \/ <>[](ConnState = "Connected")

\* C14's case: the current transport has closed without a disconnect(), and the
\* reconnect is scheduled.
C14_Witness ==
    /\ ws = -1
    /\ sockets = <<>>
    /\ timers = 1
    /\ ~callerDisconnected
    /\ ConnState = "ReconnectScheduled"

\* C15: an error event of the current transport while Connected, with no
\* disconnect() by the caller, schedules a reconnect: the connection is
\* ReconnectScheduled once onerror has run.
C15_ErrorSchedulesReconnect ==
    [][(ConnState = "Connected" /\ ~callerDisconnected /\ ws > 0 /\ OnError(ws))
         => (timers' = timers + 1 /\ ConnState' = "ReconnectScheduled")]_vars

\* ---------------------------------------------- properties: cycle order
\* The task fetches of a call's agents, in the agents' order.
TaskFetches(agentsData) == [n \in 1..Len(agentsData) |-> TasksUrl(agentsData[n])]

\* C16: while a call awaits task fetches, the fetches of all its agents have been
\* issued: the first one is awaited only after the last one was sent.
C16_TaskFetchesFannedOut ==
    \A c \in 1..Len(cycles) :
        cycles[c].pc = "getTasks"
            => cycles[c].issued = <<"GET /agents">> \o TaskFetches(cycles[c].agentsData)

\* C17: the requests of a call are issued in the order of its steps. While it
\* awaits the agent set it has issued nothing else and published nothing; while
\* it awaits the tasks of its k-th agent it has issued the task fetches of the
\* first k agents only, the k-1 earlier ones have settled, and it has published
\* nothing; it has published (merge and counters) exactly when every task fetch
\* has settled, and only then is the health fetch issued, as its last request.
C17_StepsStrictlyOrdered ==
    \A c \in 1..Len(cycles) :
        LET cyc == cycles[c]
            fetches == TaskFetches(cyc.agentsData)
        IN /\ cyc.issued[1] = "GET /agents"
           /\ \A n \in 2..Len(cyc.issued) : cyc.issued[n] # "GET /agents"
           /\ \A n \in 1..(Len(cyc.issued) - 1) : cyc.issued[n] # "GET /health"
           /\ cyc.published <=> cyc.issued[Len(cyc.issued)] = "GET /health"
           /\ cyc.pc = "getAgents" => (cyc.issued = <<"GET /agents">> /\ publishedBy # c)
           /\ cyc.pc = "getTasks"
                 => /\ cyc.idx \in 1..Len(cyc.agentsData)
                    /\ cyc.issued = <<"GET /agents">> \o SubSeq(fetches, 1, cyc.idx)
                    /\ Len(cyc.results) = cyc.idx - 1
                    /\ publishedBy # c
           /\ cyc.pc = "getHealth"
                 => /\ cyc.issued = <<"GET /agents">> \o fetches \o <<"GET /health">>
                    /\ Len(cyc.results) = Len(cyc.agentsData)
           /\ (cyc.pc = "done" /\ ~cyc.published) => cyc.issued = <<"GET /agents">>

\* C17's case: a call went through all its steps with two agents.
C17_Witness ==
    \E c \in 1..Len(cycles) :
        /\ cycles[c].pc = "done"
        /\ cycles[c].issued = <<"GET /agents", "GET /agents/a1/tasks",
                                "GET /agents/a2/tasks", "GET /health">>

\* ------------------------------------------------ properties: the timer
\* C18: mounting starts a call at once and arms the interval; every tick starts
\* one more call, and a tick is possible whenever the interval is armed, whatever
\* became of the earlier calls; calls start in no other way; once the interval is
\* cleared it stays cleared and no call is started any more.
C18_CyclesStartOnMountAndTicks ==
    /\ [](timer = "unset" <=> cycles = <<>>)
    /\ []((timer = "active" /\ Len(cycles) < MaxCycles) => ENABLED Tick)
    /\ [][/\ (Mount \/ Tick) => /\ Len(cycles') = Len(cycles) + 1
                                /\ SubSeq(cycles', 1, Len(cycles)) = cycles
                                /\ cycles'[Len(cycles')].pc = "getAgents"
                                /\ timer' = "active"
          /\ Len(cycles') # Len(cycles) => (Mount \/ Tick)
          /\ timer = "cleared" => (timer' = "cleared" /\ Len(cycles') = Len(cycles))]_vars

\* C18's case: a tick started a call while the failure of the first call was
\* displayed, and the interval was cleared afterwards.
C18_Witness ==
    /\ timer = "cleared"
    /\ Len(cycles) = 2
    /\ cycles[1].failed
    /\ cycles[2].afterError

\* ---------------------------------------------- properties: HTTP client
\* C19: the step in which a request fails with status 401 removes the stored
\* token, sets the location to /login and rejects the caller's promise with the
\* very error received; a failure with another status or without response
\* rejects with the error and leaves token and location alone; a success leaves
\* them alone; and a request sent while no token is stored carries no
\* Authorization header, one sent while a token is stored carries it as Bearer.
C19_UnauthorizedClearsCredential ==
    [][/\ \A r \in 1..Len(requests), err \in HttpErrors :
             ResponseRejected(r, err)
                => /\ requests'[r].state = "rejected"
                   /\ requests'[r].error = err
                   /\ (err.hasResponse /\ err.status = 401)
                         => (authToken' = NoToken /\ href' = "/login")
                   /\ ~(err.hasResponse /\ err.status = 401)
                         => (authToken' = authToken /\ href' = href)
       /\ (\E r \in 1..Len(requests) : ResponseFulfilled(r))
             => (authToken' = authToken /\ href' = href)
       /\ Request
             => /\ authToken' = authToken
                /\ authToken = NoToken => requests'[Len(requests')].authorization = NoHeader
                /\ authToken = "tok1"
                      => requests'[Len(requests')].authorization = "Bearer tok1"]_vars

\* C19's case: a request that carried the token was answered 401, and the request
\* made after that went out without Authorization header.
C19_Witness ==
    /\ Len(requests) = 2
    /\ requests[1].authorization = "Bearer tok1"
    /\ requests[1].state = "rejected"
    /\ requests[1].error = [hasResponse |-> TRUE, status |-> 401]
    /\ requests[2].authorization = NoHeader
    /\ authToken = NoToken
    /\ href = "/login"

\* ------------------------------------------------ properties: registry
\* C20: subscribe(topic, callback) leaves the topic with its former list (empty
\* if it had none) plus the callback at the end, also when the callback is in
\* the list already, and touches no other topic; and a finished dispatch pass
\* has invoked every callback as many times as it was registered for the
\* frame's topic when the pass began.
C20_SubscribeAppendsNoDedup ==
    /\ [][\A t \in Topics, cb \in Callbacks :
             Subscribe(t, cb)
                => /\ t \in DOMAIN listeners'
                   /\ listeners'[t] = Append(ListenersGet(listeners, t), cb)
                   /\ \A u \in Topics \ {t} :
                         ListenersGet(listeners', u) = ListenersGet(listeners, u)]_vars
    /\ []((~Dispatching /\ pass.topic \in Topics)
             => \A cb \in Callbacks :
                   Occurrences(CalledCallbacks, cb) = Occurrences(pass.start, cb))

\* The effect unsubscribe(t, cb) is to have on the registry: if cb is in t's list,
\* exactly its first occurrence is gone and the entries before and after it stay
\* in place; otherwise nothing changes. No other topic's list changes.
RemovesFirstOnly(t, cb) ==
    LET list == ListenersGet(listeners, t)
    IN /\ \A u \in Topics \ {t} : ListenersGet(listeners', u) = ListenersGet(listeners, u)
       /\ DOMAIN listeners' = DOMAIN listeners
       /\ IF \E i \in 1..Len(list) : list[i] = cb
          THEN \E i \in 1..Len(list) :
                  /\ list[i] = cb
                  /\ \A j \in 1..(i - 1) : list[j] # cb
                  /\ listeners'[t] = SubSeq(list, 1, i - 1) \o SubSeq(list, i + 1, Len(list))
          ELSE listeners' = listeners

\* C21: every unsubscribe(topic, callback), by the caller or by a callback during
\* a dispatch, removes only the first entry of the topic's list that is the
\* callback, keeps later duplicates and all other entries in their order, leaves
\* the other topics alone, and changes nothing when the callback or the topic is
\* not in the registry.
C21_UnsubscribeRemovesFirstOnly ==
    [][\A t \in Topics, cb \in Callbacks :
          (Unsubscribe(t, cb) \/ CallbackUnsubscribe(t, cb)) => RemovesFirstOnly(t, cb)]_vars

\* C21's case: the pass began with [f, g, f], and the first callback has
\* unsubscribed f: [g, f] is left.
C21_Witness ==
    /\ Dispatching
    /\ pass.start = <<"f", "g", "f">>
    /\ pass.mutated
    /\ listeners[dispatch.topic] = <<"g", "f">>

\* connect(), disconnect(), a reconnect timer firing, or a transport event other
\* than a frame.
ConnectionStep ==
    \/ Connect
    \/ Disconnect
    \/ TimerFire
    \/ \E i \in 1..Len(sockets) : OnOpen(i) \/ OnClose(i) \/ OnError(i)

\* subscribe and unsubscribe can be called whatever the connection is doing, and
\* no connection step changes the registry.
RegistryIndependent ==
    /\ [][ConnectionStep => listeners' = listeners]_vars
    /\ []((~Dispatching /\ Registrations(listeners) < MaxListeners)
             => \A t \in Topics, cb \in Callbacks : ENABLED Subscribe(t, cb))
    /\ [](~Dispatching => \A t \in Topics, cb \in Callbacks : ENABLED Unsubscribe(t, cb))

\* C22: the registry is independent of the connection, and every callback that was
\* registered for a frame's topic when the frame arrived on the open connection,
\* in whatever connection state it had been registered, has received the frame
\* when the frame's dispatch is over.
C22_RegistryIndependentOfConnection ==
    /\ RegistryIndependent
    /\ []((~Dispatching /\ pass.topic \in Topics)
             => \A n \in 1..Len(pass.start) :
                   \E m \in 1..Len(pass.calls) :
                      pass.calls[m] = [cb |-> pass.start[n], arg |-> pass.data])

\* ------------------------------------------------ properties: ordering
\* C23: the step that takes a frame from the transport starts the frame's pass
\* with the first callback of the topic at once; the callbacks a pass has invoked
\* so far are the first ones of the topic's list, in
\* registration order, each with the frame's payload; and while a pass runs every
\* step belongs to it: it only appends calls for the same frame, so no callback
\* of another frame is invoked before the pass is over.
C23_IntraPathOrder ==
    /\ [](pass.topic \in Topics
             => /\ Len(pass.calls) <= Len(pass.start)
                /\ pass.calls = [n \in 1..Len(pass.calls) |->
                                    [cb |-> pass.start[n], arg |-> pass.data]]
                /\ Dispatching => pass.start = ListenersGet(listeners, pass.topic))
    /\ [][/\ (~Dispatching /\ pass'.raw # "")
                => (Len(pass'.calls) <= 1 /\ (Dispatching' <=> Len(pass'.calls) = 1))
          /\ Dispatching
                => /\ pass'.raw = pass.raw
                   /\ pass'.data = pass.data
                   /\ pass'.start = pass.start
                   /\ Len(pass'.calls) \in {Len(pass.calls), Len(pass.calls) + 1}
                   /\ SubSeq(pass'.calls, 1, Len(pass.calls)) = pass.calls]_vars

\* C23's case: a frame's pass over three registrations of two callbacks is over.
C23_Witness ==
    /\ ~Dispatching
    /\ pass.raw = FrameAgentStatus
    /\ pass.start = <<"g", "f", "g">>
    /\ CalledCallbacks = <<"g", "f", "g">>

\* ---------------------------------------------- properties: termination
\* C24: with every fetch settling eventually, every call that was started
\* finishes; a finished call has published a snapshot or reported an error; the
\* step in which a call finishes clears the in-progress indicator, and a failing
\* call leaves its error displayed in that step; and whatever became of the
\* earlier calls, the armed interval can start the next one.
C24_EveryCycleFinishes ==
    /\ \A c \in 1..MaxCycles :
          (Len(cycles) >= c) ~> (Len(cycles) >= c /\ cycles[c].pc = "done")
    /\ [](\A c \in 1..Len(cycles) :
             cycles[c].pc = "done" => (cycles[c].published \/ cycles[c].failed))
    /\ [][\A c \in 1..Len(cycles) :
             (cycles[c].pc # "done" /\ cycles'[c].pc = "done")
                => /\ loading' = FALSE
                   /\ cycles'[c].failed => error' # NoError]_vars
    /\ []((timer = "active" /\ Len(cycles) < MaxCycles) => ENABLED Tick)

\* C24's case: the first call ended with an error, the second one with a snapshot
\* although no health fetch ever succeeded; nothing is in progress.
C24_Witness ==
    /\ Len(cycles) = 2
    /\ \A c \in 1..2 : cycles[c].pc = "done"
    /\ cycles[1].failed
    /\ cycles[2].published
    /\ healthStatus = NoHealth
    /\ ~loading

\* ------------------------------------------------ properties: overlap
\* C25: once every call has finished, what is displayed comes from the call
\* started last: if that call published, the displayed snapshot is the one it
\* published and no error is displayed.
C25_NewestCycleWins ==
    (Len(cycles) >= 2 /\ \A c \in 1..Len(cycles) : cycles[c].pc = "done")
        => (cycles[Len(cycles)].published
               => (publishedBy = Len(cycles) /\ error = NoError))

\* ------------------------------------------- properties: one connection
\* The transports that are connecting or open, each with onmessage attached.
LiveTransports == {i \in 1..Len(sockets) : sockets[i].state \in {"CONNECTING", "OPEN"}}

\* C26: at most one transport is connecting or open, and at most one reconnect
\* timer is pending.
C26_AtMostOneLiveTransport ==
    /\ Cardinality(LiveTransports) <= 1
    /\ timers <= 1

\* ------------------------------------------------ properties: unmount
\* C27: once the interval is cleared, no step sets the agent list, recentTasks,
\* the counters, the health, the error or the in-progress indicator any more.
C27_NothingPublishedAfterStop ==
    [][timer = "cleared"
         => UNCHANGED <<agents, recentTasks, stats, healthStatus, error, loading>>]_vars

====
